---- MODULE Spec2Model ----
(***************************************************************************)
(* Model of the VAPI webhook responder (src/main.go).                      *)
(*                                                                         *)
(* The process state is the global map phoneToAssistantCache and the       *)
(* environment's VAPI_PHONE_NUMBER.  Every webhook delivery is served by   *)
(* handleVAPIWebhook in a goroutine of its own; a delivery in flight is a  *)
(* slot h with a position pc[h], its parsed payload req[h], the locals     *)
(* the handler keeps across its blocking points and, once it returns, the  *)
(* response resp[h].  A panic or a runtime throw ends the whole process    *)
(* (the application installs no recover middleware).                       *)
(*                                                                         *)
(* Spec    serves one delivery at a time (the functional contracts).       *)
(* SpecConc lets MaxInFlight deliveries overlap (the shared map).          *)
(* SpecLive is Spec with weak fairness of the handler's own steps.         *)
(***************************************************************************)
EXTENDS Naturals, Sequences, FiniteSets, TLC

\* ------------------------------------------------------------- bounds ---
MaxToolCalls == 2      \* tool calls carried by one tool-calls event
MaxInFlight == 2       \* deliveries that may overlap under SpecConc

\* ------------------------------------------------- optional (*T) values ---
Nil == <<>>
Some(v) == <<v>>
Deref(o) == o[1]

\* ------------------------------------------------------ input alphabets ---
\* Caller identities (customer.number); the empty string is a legal value.
CallerNumbers == {"", "+15551230000", "+15551230001"}
\* Values of VAPI_PHONE_NUMBER the process may be started with.
ReturnNumbers == {"+15550009999", "+15550008888"}
\* Assistant descriptions a caller may dictate.
Descriptions == {"a pirate", "a poet"}
\* Texts the text-generation collaborator may produce.
GeneratedTexts == {"You are a pirate."}
ToolNames == {"createAssistant", "lookupWeather"}
ToolCallIds == <<"call_1", "call_2", "call_3", "call_4">>

EventTypeAssistantRequest == "assistant-request"
EventTypeToolCalls == "tool-calls"
EventTypeOther == "status-update"
EventTypes == {EventTypeAssistantRequest, EventTypeToolCalls, EventTypeOther}

\* -------------------------------------------------- webhook payloads ---
\* VAPIToolCall: the id, function.name and function.arguments.assistant.
\* Within one event the i-th tool call carries the i-th id.
ToolCallAt(i) ==
    [id : {ToolCallIds[i]}, name : ToolNames,
     assistant : {Nil} \cup {Some(d) : d \in Descriptions}]

RECURSIVE ToolCallLists(_)
ToolCallLists(n) ==
    IF n = 0 THEN {<<>>}
    ELSE LET shorter == ToolCallLists(n - 1)
         IN  shorter \cup
             {Append(l, tc) : l \in {s \in shorter : Len(s) = n - 1},
                              tc \in ToolCallAt(n)}

\* VAPICustomer: absent, or present with an optional number.
Customers ==
    {Nil} \cup {Some([number |-> Nil])}
          \cup {Some([number |-> Some(n)]) : n \in CallerNumbers}

\* VAPIPhoneCall: absent, or present with its id.
PhoneCalls == {Nil, Some([id |-> "phone-call-1"])}

\* VAPIWebhookPayload after BodyParser; parsed = FALSE is a body BodyParser
\* rejects.
MalformedPayload ==
    [parsed |-> FALSE, type |-> "", toolCalls |-> <<>>, call |-> Nil,
     customer |-> Nil]

\* The fields a branch of the handler never reads are held at one value:
\* toolCalls of an assistant-request, call of a tool-calls event.
AssistantRequestPayloads ==
    [parsed : {TRUE}, type : {EventTypeAssistantRequest}, toolCalls : {<<>>},
     call : PhoneCalls, customer : Customers]

ToolCallsPayloads ==
    [parsed : {TRUE}, type : {EventTypeToolCalls},
     toolCalls : ToolCallLists(MaxToolCalls),
     call : {Some([id |-> "phone-call-1"])}, customer : Customers]

OtherPayloads ==
    [parsed : {TRUE}, type : {EventTypeOther}, toolCalls : ToolCallLists(1),
     call : PhoneCalls, customer : Customers]

Payloads ==
    {MalformedPayload} \cup AssistantRequestPayloads \cup ToolCallsPayloads
                       \cup OtherPayloads

\* The deliveries overlapped under SpecConc: well-formed assistant requests
\* and single-call createAssistant events of callers that have a non-empty
\* number.
ConcPayloads ==
    {p \in AssistantRequestPayloads \cup ToolCallsPayloads :
        /\ p.call # Nil
        /\ p.customer # Nil
        /\ Deref(p.customer).number # Nil
        /\ Deref(p.customer).number # Some("")
        /\ p.type = EventTypeToolCalls =>
              /\ Len(p.toolCalls) = 1
              /\ p.toolCalls[1].name = "createAssistant"
              /\ p.toolCalls[1].assistant # Nil}

\* ------------------------------------- text-generation collaborator ---
\* What oai.CreateChatCompletion hands back: an error flag and the choices
\* of the (possibly zero-valued) response.
Completions ==
    [err : BOOLEAN, choices : {<<>>} \cup {<<g>> : g \in GeneratedTexts}]

NoCompletion == [err |-> FALSE, choices |-> <<>>]

SystemInstruction ==
    "You are a prompt engineer. Generate a system prompt for an AI assistant based on this description. The prompt should be concise and clear."

\* Variant: the description is wrapped in a label before it is sent.
OaiMessagesLabelled(description) ==
    << [role |-> "system", content |-> SystemInstruction],
       [role |-> "user", content |-> "Description: " \o description] >>

OaiMessages(description) ==
    << [role |-> "system", content |-> SystemInstruction],
       [role |-> "user", content |-> description] >>

ChatCompletionRequest(description) ==
    [model |-> "gpt-4o-mini", messages |-> OaiMessages(description)]

\* ------------------------------------------ assistant configurations ---
ToolIds == <<"d137092e-0250-4151-abf0-205ff2b0a438">>

\* Variant: the transfer destination is a hard-coded number.
TransferToolsHardCoded(number) ==
    << [type |-> "transferCall",
        destinations |-> << [type |-> "number",
                             number |-> "+15550009999"] >>] >>

TransferTools(number) ==
    << [type |-> "transferCall",
        destinations |-> << [type |-> "number", number |-> number] >>] >>

Voice ==
    [model |-> "sonic-english",
     voiceId |-> "248be419-c632-4f23-adf1-5324ed7dbf1d",
     provider |-> "cartesia"]

Transcriber ==
    [model |-> "general", language |-> "en", provider |-> "deepgram"]

ModelBlock(prompt, number) ==
    [model |-> "gpt-4o-mini", provider |-> "openai",
     messages |-> << [role |-> "system", content |-> prompt] >>,
     toolIds |-> ToolIds,
     tools |-> TransferTools(number)]

GeneratorPrompt(phoneNumber) ==
    "You are a helpful assistant. Greet the caller and ask how you can help them today. They will tell you an agent that they want to speak to.\n\tAfter the createAssistant tool call is successful, transfer the caller to "
    \o phoneNumber
    \o ". Don't transfer the call until the createAssistant tool call is successful.\n\t"

FirstMessageText == "Hello! How can I assist you today?"

\* Variant: the Generator template carries the Custom template's
\* first-message fields.
createInitialAssistantNoGreeting(phoneNumber) ==
    [name |-> "AssistantGenerator",
     model |-> ModelBlock(GeneratorPrompt(phoneNumber), phoneNumber),
     voice |-> Voice,
     transcriber |-> Transcriber,
     firstMessage |-> Nil,
     firstMessageMode |->
         Some("assistant-speaks-first-with-model-generated-message")]

createInitialAssistant(phoneNumber) ==
    [name |-> "AssistantGenerator",
     model |-> ModelBlock(GeneratorPrompt(phoneNumber), phoneNumber),
     voice |-> Voice,
     transcriber |-> Transcriber,
     firstMessage |-> Some(FirstMessageText),
     firstMessageMode |-> Some("assistant-speaks-first")]

CustomSuffix(vapiNumber) ==
    "\n\t\tFor your first message, introduce yourself and state your purpose. Be concise and clear.\n\t\tThen, the caller will describe an assistant that they want to speak to. Call the createAssistant tool with the description.\n\t\tAfter the createAssistant tool call is successful, transfer the caller to "
    \o vapiNumber \o ".\n\t\t"

\* Variant: the Custom template keeps the Generator template's literal
\* greeting and mode.
CustomAssistantWithGreeting(generated, vapiNumber) ==
    [name |-> "CustomAssistant",
     model |-> ModelBlock(generated \o CustomSuffix(vapiNumber), vapiNumber),
     voice |-> Voice,
     transcriber |-> Transcriber,
     firstMessage |-> Some(FirstMessageText),
     firstMessageMode |-> Some("assistant-speaks-first")]

CustomAssistant(generated, vapiNumber) ==
    [name |-> "CustomAssistant",
     model |-> ModelBlock(generated \o CustomSuffix(vapiNumber), vapiNumber),
     voice |-> Voice,
     transcriber |-> Transcriber,
     firstMessage |-> Nil,
     firstMessageMode |->
         Some("assistant-speaks-first-with-model-generated-message")]

\* response.Choices[0] is read before err is looked at: an empty Choices
\* slice is an index-out-of-range panic.
CompletionPanics(completion) == Len(completion.choices) = 0

\* getOrCreateAssistant after the collaborator returned, when it did not
\* panic.
AssistantAfterCompletion(completion, vapiNumber) ==
    IF completion.err
    THEN createInitialAssistant(vapiNumber)
    ELSE CustomAssistant(completion.choices[1], vapiNumber)

\* ------------------------------------------------------- HTTP responses ---
StatusOK == 200
StatusBadRequest == 400

EmptyBody == [kind |-> "empty"]
NoResponse == [status |-> 0, body |-> EmptyBody]
SendStatus(code) == [status |-> code, body |-> EmptyBody]
AssistantResponse(assistant) ==
    [status |-> StatusOK,
     body |-> [kind |-> "assistant", assistant |-> assistant]]
ResultsResponse(toolCallId) ==
    [status |-> StatusOK,
     body |-> [kind |-> "results",
               results |-> << [toolCallId |-> toolCallId,
                               result |-> "Assistant created successfully"] >>]]

\* -------------------------------------------------- handler, pure parts ---
HasCustomerNumber(p) ==
    p.customer # Nil /\ Deref(p.customer).number # Nil

\* Variant: the customer number is never copied into phoneNumber.
RequestPhoneNumberUnset(p) == ""

\* phoneNumber of the assistant-request branch: "" unless a number is given.
RequestPhoneNumber(p) ==
    IF HasCustomerNumber(p) THEN Deref(Deref(p.customer).number) ELSE ""

\* Variant: the name of the tool is not looked at.
ReachesCacheWriteAnyName(p, toolCall) ==
    /\ HasCustomerNumber(p)
    /\ toolCall.assistant # Nil

\* Variant: an empty customer number fails the validation too.
ReachesCacheWriteNonEmptyNumber(p, toolCall) ==
    /\ toolCall.name = "createAssistant"
    /\ HasCustomerNumber(p)
    /\ Deref(Deref(p.customer).number) # ""
    /\ toolCall.assistant # Nil

\* Variant: the customer-number validation is left out.
ReachesCacheWriteUnvalidated(p, toolCall) ==
    /\ toolCall.name = "createAssistant"
    /\ toolCall.assistant # Nil

\* One iteration of the switch: does this tool call reach the cache write?
ReachesCacheWrite(p, toolCall) ==
    /\ toolCall.name = "createAssistant"
    /\ HasCustomerNumber(p)
    /\ toolCall.assistant # Nil

\* Variant: the loop runs to its end and the last write stands.
RECURSIVE ScanToolCallsLast(_, _)
ScanToolCallsLast(p, i) ==
    IF i > Len(p.toolCalls) THEN 0
    ELSE LET later == ScanToolCallsLast(p, i + 1)
         IN  IF later # 0 THEN later
             ELSE IF ReachesCacheWrite(p, p.toolCalls[i]) THEN i
             ELSE 0

\* Variant: the break of a failed validation leaves the loop, not the switch.
RECURSIVE ScanToolCallsBreakLoop(_, _)
ScanToolCallsBreakLoop(p, i) ==
    IF i > Len(p.toolCalls) THEN 0
    ELSE IF ReachesCacheWrite(p, p.toolCalls[i]) THEN i
    ELSE IF p.toolCalls[i].name = "createAssistant" THEN 0
    ELSE ScanToolCallsBreakLoop(p, i + 1)

\* The range loop: index of the first tool call that reaches the cache
\* write (and returns from the handler), 0 when the loop runs to its end.
RECURSIVE ScanToolCalls(_, _)
ScanToolCalls(p, i) ==
    IF i > Len(p.toolCalls) THEN 0
    ELSE IF ReachesCacheWrite(p, p.toolCalls[i]) THEN i
    ELSE ScanToolCalls(p, i + 1)

\* Variant: the map holds the entry of the latest caller only.
CachePutSingleEntry(cache, phoneNumber, assistantDesc) ==
    (phoneNumber :> assistantDesc)

\* Variant: an existing entry is kept (first write wins).
CachePutIfAbsent(cache, phoneNumber, assistantDesc) ==
    cache @@ (phoneNumber :> assistantDesc)

CachePut(cache, phoneNumber, assistantDesc) ==
    (phoneNumber :> assistantDesc) @@ cache

\* Variant: a description is handed out once and removed.
CacheAfterGetConsumed(cache, phoneNumber) ==
    [k \in DOMAIN cache \ {phoneNumber} |-> cache[k]]

\* The map after the two-value read of phoneNumber: as before.
CacheAfterGet(cache, phoneNumber) == cache

EmptyCache == << >>

\* ---------------------------------------------------------------- state ---
Handlers == 1..MaxInFlight

VARIABLES
    phoneToAssistantCache,  \* the global map: caller number -> description
    vapiPhoneNumber,        \* os.Getenv("VAPI_PHONE_NUMBER")
    crashed,                \* the process died of a panic or a runtime throw
    pc,                     \* per delivery: position in handleVAPIWebhook
    req,                    \* per delivery: the parsed payload
    resp,                   \* per delivery: the response sent
    oaiRequests,            \* per delivery: requests made to the collaborator
    completion,             \* per delivery: what the collaborator handed back
    seen,                   \* history: the cache when the delivery arrived
    written,                \* history: last description acknowledged per caller
    lastOverwrite           \* history: the last put that replaced an entry

vars ==
    << phoneToAssistantCache, vapiPhoneNumber, crashed, pc, req, resp,
       oaiRequests, completion, seen, written, lastOverwrite >>

Init ==
    /\ phoneToAssistantCache = EmptyCache
    /\ vapiPhoneNumber \in ReturnNumbers
    /\ crashed = FALSE
    /\ pc = [h \in Handlers |-> "idle"]
    /\ req = [h \in Handlers |-> MalformedPayload]
    /\ resp = [h \in Handlers |-> NoResponse]
    /\ oaiRequests = [h \in Handlers |-> <<>>]
    /\ completion = [h \in Handlers |-> NoCompletion]
    /\ seen = [h \in Handlers |-> EmptyCache]
    /\ written = EmptyCache
    /\ lastOverwrite = Nil

\* The process is gone: so is its map, and nothing is sent for h.
Die(h, how) ==
    /\ crashed' = TRUE
    /\ phoneToAssistantCache' = EmptyCache
    /\ pc' = [pc EXCEPT ![h] = how]

\* The handler returns with response r.
Return(h, r) ==
    /\ resp' = [resp EXCEPT ![h] = r]
    /\ pc' = [pc EXCEPT ![h] = "done"]

FirstHit(p) == ScanToolCalls(p, 1)

\* Variant: the error of BodyParser is not looked at.
ParseFailsIgnored(p) == FALSE

\* BodyParser returns an error.
ParseFails(p) == ~p.parsed

\* Variant: the tool calls are scanned whatever the type of the event.
IsToolCallsEventUnchecked(p) == TRUE

\* The guard of the tool-calls branch.
IsToolCallsEvent(p) == p.type = EventTypeToolCalls

\* handleVAPIWebhook from its entry up to its first access to the cache or
\* its return: BodyParser, the dispatch on message.type, the two log lines
\* of the assistant-request branch (the second dereferences message.call)
\* and the scan of the tool calls.
Dispatch(h, p) ==
    /\ ~crashed
    /\ pc[h] = "idle"
    /\ req' = [req EXCEPT ![h] = p]
    /\ seen' = [seen EXCEPT ![h] = phoneToAssistantCache]
    /\ UNCHANGED << vapiPhoneNumber, oaiRequests, completion, written,
                    lastOverwrite >>
    /\ IF ParseFails(p)
       THEN /\ Return(h, SendStatus(StatusBadRequest))
            /\ UNCHANGED << phoneToAssistantCache, crashed >>
       ELSE IF p.type = EventTypeAssistantRequest
       THEN IF p.call = Nil
            THEN Die(h, "panic") /\ UNCHANGED resp
            ELSE /\ pc' = [pc EXCEPT ![h] = "lookup"]
                 /\ UNCHANGED << phoneToAssistantCache, crashed, resp >>
       ELSE IF IsToolCallsEvent(p) /\ FirstHit(p) # 0
       THEN /\ pc' = [pc EXCEPT ![h] = "store"]
            /\ UNCHANGED << phoneToAssistantCache, crashed, resp >>
       ELSE /\ Return(h, SendStatus(StatusOK))
            /\ UNCHANGED << phoneToAssistantCache, crashed >>

\* getOrCreateAssistant up to the call of the collaborator: the map read,
\* then either the Generator configuration or the chat-completion request.
Lookup(h) ==
    /\ ~crashed
    /\ pc[h] = "lookup"
    /\ LET callerPhoneNumber == RequestPhoneNumber(req[h])
       IN  IF callerPhoneNumber \in DOMAIN phoneToAssistantCache
           THEN /\ oaiRequests' =
                      [oaiRequests EXCEPT ![h] = Append(@,
                          ChatCompletionRequest(
                              phoneToAssistantCache[callerPhoneNumber]))]
                /\ pc' = [pc EXCEPT ![h] = "generate"]
                /\ UNCHANGED resp
           ELSE /\ Return(h, AssistantResponse(
                                createInitialAssistant(vapiPhoneNumber)))
                /\ UNCHANGED oaiRequests
    /\ phoneToAssistantCache' =
          CacheAfterGet(phoneToAssistantCache, RequestPhoneNumber(req[h]))
    /\ UNCHANGED << vapiPhoneNumber, crashed, req, completion, seen, written,
                    lastOverwrite >>

\* The collaborator hands back c; getOrCreateAssistant runs to its return
\* and the handler sends the configuration.
Complete(h, c) ==
    /\ ~crashed
    /\ pc[h] = "generate"
    /\ completion' = [completion EXCEPT ![h] = c]
    /\ UNCHANGED << vapiPhoneNumber, req, oaiRequests, seen, written,
                    lastOverwrite >>
    /\ IF CompletionPanics(c)
       THEN Die(h, "panic") /\ UNCHANGED resp
       ELSE /\ Return(h, AssistantResponse(
                            AssistantAfterCompletion(c, vapiPhoneNumber)))
            /\ UNCHANGED << phoneToAssistantCache, crashed >>

\* The createAssistant case past its validations: the two dereferences
\* (a nil pointer is a panic), the map write and the return of the
\* acknowledgement from inside the loop.
Store(h) ==
    /\ ~crashed
    /\ pc[h] = "store"
    /\ UNCHANGED << vapiPhoneNumber, req, oaiRequests, completion, seen >>
    /\ LET toolCall == req[h].toolCalls[FirstHit(req[h])]
       IN  IF ~HasCustomerNumber(req[h]) \/ toolCall.assistant = Nil
           THEN /\ Die(h, "panic")
                /\ UNCHANGED << resp, written, lastOverwrite >>
           ELSE LET phoneNumber == Deref(Deref(req[h].customer).number)
                    assistantDesc == Deref(toolCall.assistant)
                IN  /\ phoneToAssistantCache' =
                          CachePut(phoneToAssistantCache, phoneNumber,
                                   assistantDesc)
                    /\ written' = (phoneNumber :> assistantDesc) @@ written
                    /\ lastOverwrite' =
                          IF phoneNumber \in DOMAIN written
                          THEN Some([number |-> phoneNumber,
                                     old |-> written[phoneNumber],
                                     new |-> assistantDesc])
                          ELSE lastOverwrite
                    /\ Return(h, ResultsResponse(toolCall.id))
                    /\ UNCHANGED crashed

\* The response is on the wire; the goroutine is free for the next delivery.
Finish(h) ==
    /\ ~crashed
    /\ pc[h] = "done"
    /\ pc' = [pc EXCEPT ![h] = "idle"]
    /\ req' = [req EXCEPT ![h] = MalformedPayload]
    /\ resp' = [resp EXCEPT ![h] = NoResponse]
    /\ oaiRequests' = [oaiRequests EXCEPT ![h] = <<>>]
    /\ completion' = [completion EXCEPT ![h] = NoCompletion]
    /\ seen' = [seen EXCEPT ![h] = EmptyCache]
    /\ UNCHANGED << phoneToAssistantCache, vapiPhoneNumber, crashed, written,
                    lastOverwrite >>

\* Two goroutines are at an access to the map, one of them the write, and
\* nothing orders them.
AtCacheRead(h) == pc[h] = "lookup"
AtCacheWrite(h) == pc[h] = "store"
Racing(h, g) ==
    /\ h # g
    /\ \/ AtCacheWrite(h) /\ (AtCacheRead(g) \/ AtCacheWrite(g))
       \/ AtCacheRead(h) /\ AtCacheWrite(g)

\* The accesses overlap and the runtime's map check notices: "fatal error:
\* concurrent map read and map write" / "concurrent map writes".  When it
\* does not notice, the accesses take effect in either order (Lookup and
\* Store above).
RaceThrow(h) ==
    /\ ~crashed
    /\ \E g \in Handlers : Racing(h, g)
    /\ Die(h, "fatal")
    /\ UNCHANGED << vapiPhoneNumber, req, resp, oaiRequests, completion,
                    seen, written, lastOverwrite >>

\* A delivery out of the set payloads arrives and is taken up by the free
\* goroutine h.
Deliver(h, payloads) ==
    /\ pc[h] = "idle"
    /\ \E p \in payloads : Dispatch(h, p)

\* ------------------------------------------------------ specifications ---
\* One delivery at a time.
Next ==
    \/ Deliver(1, Payloads)
    \/ Lookup(1)
    \/ \E c \in Completions : Complete(1, c)
    \/ Store(1)
    \/ Finish(1)

Spec == Init /\ [][Next]_vars

\* Overlapping deliveries, as fasthttp serves them.
NextConc ==
    \E h \in Handlers :
        \/ Deliver(h, ConcPayloads)
        \/ Lookup(h)
        \/ \E c \in Completions : Complete(h, c)
        \/ Store(h)
        \/ Finish(h)
        \/ RaceThrow(h)

SpecConc == Init /\ [][NextConc]_vars

\* One delivery at a time, with the scheduling the Go runtime gives: a
\* goroutine that can run its next step does run it.  Nothing makes a
\* delivery arrive and nothing makes the collaborator answer: the request is
\* made under context.Background() by a client without timeout.
Fairness ==
    /\ WF_vars(Lookup(1))
    /\ WF_vars(Store(1))
    /\ WF_vars(Finish(1))

SpecLive == Init /\ [][Next]_vars /\ Fairness

\* --------------------------------------------------------------- claims ---
AssistantRequests ==
    {h \in Handlers : req[h].parsed /\ req[h].type = EventTypeAssistantRequest}

ToolCallEvents ==
    {h \in Handlers : req[h].parsed /\ req[h].type = EventTypeToolCalls}

\* Deliveries whose handler has called resolve (getOrCreateAssistant) and is
\* past its cache lookup.
Resolved ==
    {h \in AssistantRequests :
        req[h].call # Nil /\ pc[h] \in {"generate", "done", "panic"}}

\* Resolve has ended for h, by returning or by a panic.
ResolveEnded(h) == pc[h] \in {"done", "panic"}

Caller(h) == RequestPhoneNumber(req[h])

GeneratorReturned(h) ==
    /\ pc[h] = "done"
    /\ resp[h] = [status |-> 200,
                  body |-> [kind |-> "assistant",
                            assistant |->
                                createInitialAssistant(vapiPhoneNumber)]]

\* C1: when the collaborator returns an error for a caller that has a cache
\* entry, resolve returns exactly the Generator configuration of the
\* no-entry case and the request is answered normally with it.
C1_FailureFallsBackToGenerator ==
    \A h \in Resolved :
        (/\ Caller(h) \in DOMAIN seen[h]
         /\ ResolveEnded(h)
         /\ completion[h].err)
        => GeneratorReturned(h)

\* C2: no two deliveries are ever at accesses to the cache, one of them a
\* write, with nothing ordering them.
C2_CacheAccessesGuarded ==
    \A h \in Handlers : \A g \in Handlers : ~Racing(h, g)

\* C3: for a caller without a cache entry (the empty identity included)
\* resolve returns the Generator configuration, with the fixed greeting and
\* mode "assistant-speaks-first", and calls the collaborator not at all.
C3_NoEntryGivesGenerator ==
    \A h \in Resolved :
        Caller(h) \notin DOMAIN seen[h]
        => /\ pc[h] = "done"
           /\ resp[h].status = 200
           /\ resp[h].body.kind = "assistant"
           /\ resp[h].body.assistant.name = "AssistantGenerator"
           /\ resp[h].body.assistant.firstMessage
                 = Some("Hello! How can I assist you today?")
           /\ resp[h].body.assistant.firstMessageMode
                 = Some("assistant-speaks-first")
           /\ oaiRequests[h] = <<>>

C3_Witness ==
    \E h \in Resolved :
        /\ Caller(h) = ""
        /\ seen[h] # EmptyCache
        /\ "" \notin DOMAIN seen[h]
        /\ GeneratorReturned(h)

\* C4: for a caller with a cache entry resolve makes exactly one call to the
\* collaborator, failed or not: system turn the fixed instruction, user turn
\* the cached description.
C4_ExactlyOneCollaboratorCall ==
    \A h \in Resolved :
        Caller(h) \in DOMAIN seen[h]
        => /\ Len(oaiRequests[h]) = 1
           /\ oaiRequests[h][1].messages
                 = << [role |-> "system", content |-> SystemInstruction],
                      [role |-> "user", content |-> seen[h][Caller(h)]] >>

C4_Witness ==
    \E h \in Resolved :
        /\ Caller(h) \in DOMAIN seen[h]
        /\ pc[h] = "done"
        /\ completion[h].err
        /\ Len(oaiRequests[h]) = 1

\* A createAssistant call of the event of h that has both the customer
\* number and the description.
CompleteCreateCalls(h) ==
    {i \in 1..Len(req[h].toolCalls) :
        /\ req[h].toolCalls[i].name = "createAssistant"
        /\ req[h].customer # Nil
        /\ req[h].customer[1].number # Nil
        /\ req[h].toolCalls[i].assistant # Nil}

CustomerNumber(h) == req[h].customer[1].number[1]

Acknowledged(h, i) ==
    /\ pc[h] = "done"
    /\ CustomerNumber(h) \in DOMAIN phoneToAssistantCache
    /\ phoneToAssistantCache[CustomerNumber(h)]
          = req[h].toolCalls[i].assistant[1]
    /\ resp[h].status = 200
    /\ resp[h].body.kind = "results"
    /\ resp[h].body.results
          = << [toolCallId |-> req[h].toolCalls[i].id,
                result |-> "Assistant created successfully"] >>

\* C5 (as stated): every createAssistant call with number and description
\* present leaves its description in the cache and is the one result entry
\* of the response.
C5_EveryCompleteCallAcknowledged ==
    \A h \in ToolCallEvents :
        pc[h] = "done" => \A i \in CompleteCreateCalls(h) : Acknowledged(h, i)

FirstCompleteCreateCall(h) ==
    {i \in CompleteCreateCalls(h) : \A j \in CompleteCreateCalls(h) : i <= j}

\* C5 (amended): the first createAssistant call in list order with number
\* and description present leaves its description in the cache for that
\* number and is the one result entry of the response.
C5_FirstCompleteCallAcknowledged ==
    \A h \in ToolCallEvents :
        \A i \in FirstCompleteCreateCall(h) :
            /\ pc[h] \in {"store", "done"}
            /\ pc[h] = "done" => Acknowledged(h, i)

C5_Witness ==
    \E h \in ToolCallEvents :
        /\ FirstCompleteCreateCall(h) = {2}
        /\ req[h].toolCalls[1].name = "createAssistant"
        /\ CustomerNumber(h) = "+15551230000"
        /\ req[h].toolCalls[2].assistant = Some("a pirate")
        /\ Acknowledged(h, 2)

\* C6: the description resolve sends for a caller is the one most recently
\* acknowledged for that caller (a later put overwrites an earlier one), and
\* a put changes the entry of its own caller only.
C6_LastWriteWins ==
    /\ \A h \in Resolved :
          Caller(h) \in DOMAIN written
          => /\ Len(oaiRequests[h]) = 1
             /\ oaiRequests[h][1].messages[2]
                   = [role |-> "user", content |-> written[Caller(h)]]
    /\ \A h \in ToolCallEvents :
          (pc[h] = "done" /\ resp[h].body.kind = "results")
          => /\ DOMAIN phoneToAssistantCache
                   = DOMAIN seen[h] \cup {CustomerNumber(h)}
             /\ phoneToAssistantCache[CustomerNumber(h)]
                   = written[CustomerNumber(h)]
             /\ \A m \in DOMAIN seen[h] \ {CustomerNumber(h)} :
                   phoneToAssistantCache[m] = seen[h][m]

C6_Witness ==
    \E h \in Resolved :
        /\ lastOverwrite
              = Some([number |-> Caller(h), old |-> "a pirate",
                      new |-> "a poet"])
        /\ DOMAIN seen[h] # {Caller(h)}
        /\ Len(oaiRequests[h]) = 1
        /\ oaiRequests[h][1].messages[2].content = "a poet"

\* C7: an assistant-request without a call object is answered with HTTP 200
\* and an assistant configuration; nothing crashes and the cache survives.
C7_MissingCallIsAnswered ==
    \A h \in AssistantRequests :
        req[h].call = Nil
        => /\ ~crashed
           /\ pc[h] # "panic"
           /\ phoneToAssistantCache = seen[h]
           /\ pc[h] = "done" =>
                 resp[h].status = 200 /\ resp[h].body.kind = "assistant"

\* C8: when the collaborator returns no error and no choices, resolve falls
\* back to the Generator configuration of the no-entry case; the request is
\* answered normally.
C8_EmptyCompletionFallsBack ==
    \A h \in Resolved :
        (/\ Caller(h) \in DOMAIN seen[h]
         /\ ResolveEnded(h)
         /\ ~completion[h].err
         /\ completion[h].choices = <<>>)
        => GeneratorReturned(h)

\* The createAssistant calls of the event of h that lack the customer number
\* or the description.
IncompleteCreateCalls(h) ==
    {i \in 1..Len(req[h].toolCalls) :
        /\ req[h].toolCalls[i].name = "createAssistant"
        /\ i \notin CompleteCreateCalls(h)}

\* C9: a createAssistant call without customer number or without description
\* gets no result entry; an event whose createAssistant calls all lack one
\* of the two leaves the cache as it was and is answered 200 with an empty
\* body.
C9_IncompleteCallIsDropped ==
    \A h \in ToolCallEvents :
        /\ \A i \in IncompleteCreateCalls(h) :
              resp[h].body.kind = "results"
              => \A k \in 1..Len(resp[h].body.results) :
                    resp[h].body.results[k].toolCallId
                       # req[h].toolCalls[i].id
        /\ (IncompleteCreateCalls(h) # {} /\ CompleteCreateCalls(h) = {})
           => /\ pc[h] = "done"
              /\ ~crashed
              /\ phoneToAssistantCache = seen[h]
              /\ resp[h] = [status |-> 200, body |-> [kind |-> "empty"]]

C9_Witness ==
    \E h \in ToolCallEvents :
        /\ req[h].customer = Some([number |-> Nil])
        /\ Len(req[h].toolCalls) = 1
        /\ req[h].toolCalls[1].name = "createAssistant"
        /\ req[h].toolCalls[1].assistant = Some("a pirate")
        /\ seen[h] # EmptyCache
        /\ pc[h] = "done"
        /\ resp[h] = [status |-> 200, body |-> [kind |-> "empty"]]

\* The destination numbers of the transferCall tools of a configuration.
TransferDestinations(assistant) ==
    UNION {{assistant.model.tools[t].destinations[d].number :
               d \in 1..Len(assistant.model.tools[t].destinations)} :
           t \in {u \in 1..Len(assistant.model.tools) :
                     assistant.model.tools[u].type = "transferCall"}}

\* C10: every configuration resolve returns transfers to the configured
\* return number, and to no other.
C10_TransferToReturnNumber ==
    \A h \in Resolved :
        pc[h] = "done"
        => /\ resp[h].body.kind = "assistant"
           /\ TransferDestinations(resp[h].body.assistant)
                 = {vapiPhoneNumber}

C10_Witness ==
    \E h \in Resolved :
        /\ pc[h] = "done"
        /\ resp[h].body.assistant.name = "CustomAssistant"
        /\ vapiPhoneNumber = "+15550008888"
        /\ TransferDestinations(resp[h].body.assistant) = {"+15550008888"}

\* Deliveries of a parsed event that is neither an assistant-request nor a
\* tool-calls event.
OtherEvents ==
    {h \in Handlers :
        /\ pc[h] # "idle"
        /\ req[h].parsed
        /\ req[h].type # "assistant-request"
        /\ req[h].type # "tool-calls"}

EmptyOK(h) ==
    /\ pc[h] = "done"
    /\ resp[h] = [status |-> 200, body |-> [kind |-> "empty"]]

Untouched(h) ==
    /\ ~crashed
    /\ phoneToAssistantCache = seen[h]
    /\ oaiRequests[h] = <<>>

\* C11: an event of any other type is answered 200 with an empty body; the
\* cache stays as it was and the collaborator is not called, whatever tool
\* calls and customer number the payload carries.
C11_OtherTypeIsNoOp ==
    \A h \in OtherEvents : EmptyOK(h) /\ Untouched(h)

C11_Witness ==
    \E h \in OtherEvents :
        /\ req[h].customer = Some([number |-> Some("+15551230000")])
        /\ Len(req[h].toolCalls) = 1
        /\ req[h].toolCalls[1].name = "createAssistant"
        /\ req[h].toolCalls[1].assistant = Some("a poet")
        /\ seen[h] # EmptyCache
        /\ "+15551230000" \notin DOMAIN seen[h]
        /\ EmptyOK(h)

\* C12: with a description cached for the caller and a successful
\* generation of text g, resolve returns the CustomAssistant configuration:
\* system prompt g followed by the fixed suffix naming the return number,
\* mode "assistant-speaks-first-with-model-generated-message", no literal
\* first message.
C12_SuccessGivesCustom ==
    \A h \in Resolved :
        (/\ Caller(h) \in DOMAIN seen[h]
         /\ ResolveEnded(h)
         /\ ~completion[h].err
         /\ Len(completion[h].choices) = 1)
        => /\ pc[h] = "done"
           /\ resp[h].status = 200
           /\ resp[h].body.kind = "assistant"
           /\ resp[h].body.assistant.name = "CustomAssistant"
           /\ resp[h].body.assistant.model.messages
                 = << [role |-> "system",
                       content |-> completion[h].choices[1]
                                      \o CustomSuffix(vapiPhoneNumber)] >>
           /\ resp[h].body.assistant.firstMessageMode
                 = Some("assistant-speaks-first-with-model-generated-message")
           /\ resp[h].body.assistant.firstMessage = Nil

C12_Witness ==
    \E h \in Resolved :
        /\ Caller(h) \in DOMAIN seen[h]
        /\ seen[h][Caller(h)] = "a pirate"
        /\ completion[h] = [err |-> FALSE, choices |-> <<"You are a pirate.">>]
        /\ pc[h] = "done"
        /\ resp[h].body.assistant.name = "CustomAssistant"

\* C13: a tool-calls event none of whose tool calls is named
\* "createAssistant" is a no-op: cache unchanged, no result entries, 200
\* with an empty body, also with customer number and description present.
C13_OtherToolsAreNoOp ==
    \A h \in ToolCallEvents :
        (\A i \in 1..Len(req[h].toolCalls) :
              req[h].toolCalls[i].name # "createAssistant")
        => EmptyOK(h) /\ Untouched(h)

C13_Witness ==
    \E h \in ToolCallEvents :
        /\ Len(req[h].toolCalls) = 2
        /\ \A i \in 1..2 :
              /\ req[h].toolCalls[i].name = "lookupWeather"
              /\ req[h].toolCalls[i].assistant = Some("a poet")
        /\ req[h].customer = Some([number |-> Some("+15551230000")])
        /\ seen[h] # EmptyCache
        /\ EmptyOK(h)

\* C14: a payload that does not parse is rejected with HTTP 400 before any
\* dispatch: the cache stays as it was and the collaborator is not called.
C14_MalformedIsRejected ==
    \A h \in Handlers :
        (pc[h] # "idle" /\ ~req[h].parsed)
        => /\ pc[h] = "done"
           /\ resp[h] = [status |-> 400, body |-> [kind |-> "empty"]]
           /\ Untouched(h)

C14_Witness ==
    \E h \in Handlers :
        /\ pc[h] = "done"
        /\ ~req[h].parsed
        /\ seen[h] # EmptyCache
        /\ resp[h].status = 400

\* C15: every resolve comes to its end, also when the collaborator never
\* answers: the blocking call is bounded by a timeout, so no request stays
\* at the call for ever.
C15_ResolveEventuallyEnds ==
    \A h \in Handlers : (pc[h] = "generate") ~> (pc[h] \in {"done", "panic"})

\* The cache is cache0 with the entry of number n set to description d, and
\* nothing else changed.
PutOf(cache0, cache1, n, d) ==
    /\ DOMAIN cache1 = DOMAIN cache0 \cup {n}
    /\ cache1[n] = d
    /\ \A m \in DOMAIN cache0 \ {n} : cache1[m] = cache0[m]

\* One step of the running process, as far as the cache goes: its key set
\* does not shrink, and it changes only by the put of a createAssistant
\* call that has customer number and description.
CacheStep ==
    ~crashed' =>
        /\ DOMAIN phoneToAssistantCache \subseteq DOMAIN phoneToAssistantCache'
        /\ \/ phoneToAssistantCache' = phoneToAssistantCache
           \/ \E h \in ToolCallEvents : \E i \in CompleteCreateCalls(h) :
                 PutOf(phoneToAssistantCache, phoneToAssistantCache',
                       CustomerNumber(h), req[h].toolCalls[i].assistant[1])

\* C16: the cache is empty at process start; while the process runs its key
\* set only grows, and the only step that changes it is a createAssistant
\* call with customer number and description present, which changes the
\* entry of that number and no other.
C16_CacheOnlyGrowsByPut ==
    /\ phoneToAssistantCache = EmptyCache
    /\ [][CacheStep]_vars

C16_Witness ==
    /\ ~crashed
    /\ DOMAIN phoneToAssistantCache = CallerNumbers
    /\ lastOverwrite # Nil
    /\ \E h \in ToolCallEvents :
          /\ pc[h] = "done"
          /\ resp[h].body.kind = "results"
          /\ phoneToAssistantCache # seen[h]

\* C17: handling an assistant-request leaves the cache as it found it, on
\* every path resolve takes in the running process (no entry, generation
\* succeeded, generation failed): the caller's entry is still there, with
\* the same description, for the next request.
C17_AssistantRequestLeavesCache ==
    \A h \in AssistantRequests :
        (pc[h] # "idle" /\ ~crashed) => phoneToAssistantCache = seen[h]

C17_Witness ==
    \E h \in Resolved :
        /\ Caller(h) \in DOMAIN seen[h]
        /\ pc[h] = "done"
        /\ completion[h].err
        /\ phoneToAssistantCache = seen[h]
        /\ phoneToAssistantCache[Caller(h)] = "a poet"

\* C18: of the tool calls of one event the handler applies and acknowledges
\* the first createAssistant call in list order that has both fields, and
\* no other: skipped calls before it do not end the scan, calls after it
\* are not processed, so an event writes the cache at most once and its
\* response holds at most one result entry.
C18_OnlyFirstCompleteCallApplied ==
    \A h \in ToolCallEvents :
        pc[h] = "done"
        => /\ resp[h].body.kind = "results"
                 => Len(resp[h].body.results) = 1
           /\ CompleteCreateCalls(h) = {}
                 => /\ resp[h].body.kind = "empty"
                    /\ phoneToAssistantCache = seen[h]
           /\ \A i \in FirstCompleteCreateCall(h) :
                 /\ resp[h].body.kind = "results"
                 /\ resp[h].body.results[1].toolCallId
                       = req[h].toolCalls[i].id
                 /\ PutOf(seen[h], phoneToAssistantCache, CustomerNumber(h),
                          req[h].toolCalls[i].assistant[1])

C18_Witness ==
    \E h \in ToolCallEvents :
        /\ pc[h] = "done"
        /\ CompleteCreateCalls(h) = {1, 2}
        /\ req[h].toolCalls[1].assistant = Some("a poet")
        /\ req[h].toolCalls[2].assistant = Some("a pirate")
        /\ phoneToAssistantCache[CustomerNumber(h)] = "a poet"
        /\ resp[h].body.results[1].toolCallId = "call_1"

\* The caller identity an assistant-request is made under.
Identity(h) ==
    IF req[h].customer # Nil /\ req[h].customer[1].number # Nil
    THEN req[h].customer[1].number[1]
    ELSE ""

CustomReturned(h) ==
    /\ pc[h] = "done"
    /\ resp[h].body.kind = "assistant"
    /\ resp[h].body.assistant.name = "CustomAssistant"

\* C19: a description goes to the collaborator, and a Custom configuration
\* comes back, for caller identity n only after a createAssistant event was
\* applied for n itself, and the description sent is the one last written
\* for n: the entries of other identities play no part.
C19_CustomOnlyFromOwnEntry ==
    \A h \in AssistantRequests :
        (oaiRequests[h] # <<>> \/ CustomReturned(h))
        => /\ Identity(h) \in DOMAIN written
           /\ Len(oaiRequests[h]) = 1
           /\ oaiRequests[h][1].messages[2]
                 = [role |-> "user", content |-> written[Identity(h)]]

C19_Witness ==
    \E h \in AssistantRequests :
        /\ CustomReturned(h)
        /\ Identity(h) = "+15551230000"
        /\ DOMAIN written = {"+15551230000", "+15551230001"}
        /\ written["+15551230000"] = "a pirate"
        /\ written["+15551230001"] = "a poet"
        /\ oaiRequests[h][1].messages[2].content = "a pirate"

NumberAbsent(h) ==
    req[h].customer = Nil \/ req[h].customer[1].number = Nil

\* C20: an assistant-request without customer number is resolved under the
\* empty identity; a createAssistant call whose number is present but empty
\* is stored under that same key, so that later requests without a number
\* take the cached path with that description; a createAssistant call
\* whose number is absent writes nothing, the empty key included.
C20_EmptyIdentityIsAKey ==
    /\ \A h \in Resolved :
          NumberAbsent(h)
          => IF "" \in DOMAIN written
             THEN /\ Len(oaiRequests[h]) = 1
                  /\ oaiRequests[h][1].messages[2]
                        = [role |-> "user", content |-> written[""]]
             ELSE oaiRequests[h] = <<>>
    /\ \A h \in ToolCallEvents :
          /\ (pc[h] = "done" /\ ~NumberAbsent(h)
                 /\ req[h].customer[1].number = Some(""))
             => \A i \in FirstCompleteCreateCall(h) :
                   /\ "" \in DOMAIN phoneToAssistantCache
                   /\ phoneToAssistantCache[""]
                         = req[h].toolCalls[i].assistant[1]
                   /\ written = phoneToAssistantCache
          /\ NumberAbsent(h)
             => pc[h] = "done" /\ phoneToAssistantCache = seen[h]

C20_Witness ==
    \E h \in Resolved :
        /\ req[h].customer = Nil
        /\ "" \in DOMAIN written
        /\ written[""] = "a poet"
        /\ lastOverwrite = Some([number |-> "", old |-> "a pirate",
                                 new |-> "a poet"])
        /\ Len(oaiRequests[h]) = 1
        /\ oaiRequests[h][1].messages[2].content = "a poet"

====
